---- MODULE Spec2Model ----
(***************************************************************************)
(* Model of netflix.py: a straight-line pandas script that cleans a movie  *)
(* table, bins Vote_Average by its quartiles (catigorize_col), drops rows  *)
(* with missing values and explodes the multi-valued Genre column.         *)
(*                                                                         *)
(* A DataFrame is a sequence of rows.  A row is a record with the field    *)
(* idx (its index label) and one field per column; a cell is a record      *)
(* [na, v]: na says the cell is missing (NaN / NaT), v is its value.       *)
(* Text is a sequence of one-character strings.  A categorical column      *)
(* built by pd.cut stores codes (0, 1, ...) in v, as pandas does, and its  *)
(* ordered categories in dtypes.                                           *)
(***************************************************************************)
EXTENDS Integers, Sequences, FiniteSets, TLC

VARIABLES
    df,        \* the DataFrame `df` of the script
    dtypes,    \* df.dtypes: column -> [kind, categories]
    pc,        \* the statement the script runs next
    err,       \* the exception that halted the run, "" when none
    trace,     \* history: the statements run so far, in order
    cat_in,    \* history: the frame of the last call of catigorize_col
    entering,  \* history: the frame that entered the explode step (line 142)
    exploded   \* history: df.explode('Genre') before reset_index (line 143)

vars == <<df, dtypes, pc, err, trace, cat_in, entering, exploded>>

\* ---------------------------------------------------------------- bounds
MaxRows == 2         \* rows of an input table (pipeline runs)
MaxDefects == 2      \* missing or malformed cells of an input table
MaxGenreChars == 5   \* characters of all Genre strings of an input table
MaxN == 5            \* rows of a column handed to catigorize_col
MaxScore == 3        \* scores are 0..MaxScore

\* ------------------------------------------------------------- constants
Labels == <<"not_popular", "below_avg", "average", "popular">>
DroppedCols == {"Overview", "Original_Language", "Poster_Url"}
RetainedCols == {"Release_Date", "Title", "Popularity", "Vote_Count",
                 "Vote_Average", "Genre"}
Sep == <<",", " ">>
Alphabet == {"a", ",", " "}

\* ----------------------------------------------------------------- cells
Cell(x) == [na |-> FALSE, v |-> x]
NaNNum == [na |-> TRUE, v |-> 0]
NaNText == [na |-> TRUE, v |-> <<>>]
Columns(r) == DOMAIN r \ {"idx"}

\* ------------------------------------------------- Release_Date (90-94)
IsLeap(y) == (y % 4 = 0 /\ y % 100 # 0) \/ y % 400 = 0
DaysIn(y, m) ==
    IF m = 2 THEN (IF IsLeap(y) THEN 29 ELSE 28)
    ELSE IF m \in {4, 6, 9, 11} THEN 30 ELSE 31
\* pd.to_datetime accepts a text <<y, m, d>> iff it names a calendar day
Parseable(t) == t[2] \in 1..12 /\ t[3] \in 1..DaysIn(t[1], t[2])
to_datetime_fails(frame) ==
    \E i \in 1..Len(frame) :
        /\ ~frame[i].Release_Date.na
        /\ ~Parseable(frame[i].Release_Date.v)
\* NaN text -> NaT -> NaN year; a date -> its year
dt_year(c) == IF c.na THEN NaNNum ELSE Cell(c.v[1])

\* ------------------------------------------------ df.drop(cols) (101-102)
drop_cols(frame, cols) ==
    [i \in 1..Len(frame) |->
        [c \in DOMAIN frame[i] \ cols |-> frame[i][c]]]

\* ------------------------------------------ Series.describe() (118-122)
NumericKeys == {"count", "mean", "std", "min", "25%", "50%", "75%", "max"}
CategoryKeys == {"count", "unique", "top", "freq"}
\* describe() of a categorical (or text) column has no 'min': describe()['min']
\* raises KeyError
describe_keys_numeric_always(dt) == NumericKeys
describe_keys(dt) ==
    IF dt.kind \in {"float64", "int64"} THEN NumericKeys ELSE CategoryKeys

RECURSIVE Insert(_, _)
Insert(x, s) ==
    IF s = <<>> THEN <<x>>
    ELSE IF x <= Head(s) THEN <<x>> \o s
    ELSE <<Head(s)>> \o Insert(x, Tail(s))
RECURSIVE Sort(_)
Sort(s) == IF s = <<>> THEN <<>> ELSE Insert(Head(s), Sort(Tail(s)))

\* the non-missing values of a column, ascending (describe skips NaN)
RECURSIVE ColumnValues(_, _)
ColumnValues(frame, col) ==
    IF frame = <<>> THEN <<>>
    ELSE (IF frame[1][col].na THEN <<>> ELSE <<frame[1][col].v>>)
         \o ColumnValues(Tail(frame), col)
SortedValues(frame, col) == Sort(ColumnValues(frame, col))

\* The k-th quartile (k = 0 min, 1 '25%', 2 '50%', 3 '75%', 4 max) of the
\* ascending values s, TIMES 4: pandas interpolates linearly at position
\* (n-1)*k/4, so 4*q = 4*s[i] + r*(s[i+1] - s[i]) with (n-1)*k = 4*i + r
\* (0-based i).  All edges are kept in these quarter units.
Quartile4(s, k) ==
    LET p == (Len(s) - 1) * k
        i == (p \div 4) + 1
        r == p % 4
    IN  IF r = 0 THEN 4 * s[i] ELSE 4 * s[i] + r * (s[i + 1] - s[i])
describe_edges(s) == [k \in 1..5 |-> Quartile4(s, k - 1)]

\* sorted(set(edges)) (124)
RECURSIVE SortedSet(_)
SortedSet(S) ==
    IF S = {} THEN <<>>
    ELSE LET m == CHOOSE x \in S : \A y \in S : x <= y
         IN  <<m>> \o SortedSet(S \ {m})
sorted_set(e) == SortedSet({e[k] : k \in DOMAIN e})

\* labels[:len(edges)-1] (126)
trim_labels_from_top(labels, k) ==
    IF k >= Len(labels) THEN labels
    ELSE SubSeq(labels, Len(labels) - k + 1, Len(labels))
trim_labels(labels, k) ==
    IF k >= Len(labels) THEN labels
    ELSE IF k <= 0 THEN <<>> ELSE SubSeq(labels, 1, k)

\* bins.searchsorted(x, side='left'): pd.cut's default right=True
searchsorted_side_right(bins, x4) ==
    Cardinality({j \in DOMAIN bins : bins[j] <= x4})
searchsorted_descending(bins, x4) ==
    Cardinality({j \in DOMAIN bins : bins[j] >= x4})
searchsorted(bins, x4) ==
    Cardinality({j \in DOMAIN bins : bins[j] < x4})

\* pd.cut of one cell: ids = searchsorted; include_lowest puts x == bins[0]
\* in bin 1; ids 0 and len(bins) are NaN; the code stored is ids - 1
cut_cell(c, bins, include_lowest) ==
    IF c.na THEN NaNNum
    ELSE LET x4 == 4 * c.v
             ids0 == searchsorted(bins, x4)
             ids == IF include_lowest /\ bins # <<>> /\ x4 = bins[1]
                    THEN 1 ELSE ids0
         IN  IF ids = 0 \/ ids = Len(bins) THEN NaNNum ELSE Cell(ids - 1)

\* pd.cut(x, bins, labels, duplicates='drop', include_lowest=True) (126):
\* bins must not decrease; duplicate edges are dropped; the labels must be
\* one fewer than the edges left
unique_bins(bins) == SortedSet({bins[j] : j \in DOMAIN bins})
pd_cut_raises(bins, lab) ==
    \/ \E j \in 1..(Len(bins) - 1) : bins[j] > bins[j + 1]
    \/ Len(lab) # Len(unique_bins(bins)) - 1

\* catigorize_col(df, col, labels) (108-127): the frame, dtypes and the
\* exception it ends with
catigorize_col(frame, dt, col, labels) ==
    IF "min" \notin describe_keys(dt[col])
    THEN [df |-> frame, dtypes |-> dt, err |-> "KeyError"]
    ELSE
    LET s == SortedValues(frame, col)
    IN  IF s = <<>>
        \* every edge is NaN: five NaN edges collapse to one, four labels
        THEN [df |-> frame, dtypes |-> dt, err |-> "ValueError"]
        ELSE
        LET edges == sorted_set(describe_edges(s))
            lab == trim_labels(labels, Len(edges) - 1)
        IN  IF pd_cut_raises(edges, lab)
            THEN [df |-> frame, dtypes |-> dt, err |-> "ValueError"]
            ELSE [df |-> [i \in 1..Len(frame) |->
                            [frame[i] EXCEPT
                               ![col] = cut_cell(@, unique_bins(edges), TRUE)]],
                  dtypes |-> [dt EXCEPT ![col] =
                                [kind |-> "category", categories |-> lab]],
                  err |-> ""]

\* the label a categorical cell shows
LabelOf(c, dt) == dt.categories[c.v + 1]


\* ------------------------------------------------- df.dropna() (137)
dropna_genre_only(frame) == SelectSeq(frame, LAMBDA r : ~r.Genre.na)
dropna(frame) ==
    SelectSeq(frame, LAMBDA r : \A c \in Columns(r) : ~r[c].na)

\* ------------------------------------- str.split(', ') (142)
\* Python's str.split(sep): cut at each occurrence of sep, left to right
RECURSIVE str_split(_, _)
str_split(s, sep) ==
    LET hits == {i \in 1..(Len(s) - Len(sep) + 1) :
                    SubSeq(s, i, i + Len(sep) - 1) = sep}
    IN  IF hits = {} THEN <<s>>
        ELSE LET i == CHOOSE h \in hits : \A g \in hits : h <= g
             IN  <<SubSeq(s, 1, i - 1)>>
                 \o str_split(SubSeq(s, i + Len(sep), Len(s)), sep)
\* Series.str.split: NaN stays NaN, a text becomes the list of its pieces
split_column(frame, col, sep) ==
    [i \in 1..Len(frame) |->
        [frame[i] EXCEPT ![col] =
            IF @.na THEN @ ELSE Cell(str_split(@.v, sep))]]

\* --------------------------------------- df.explode('Genre') (143)
\* one row per element of the list, the index label and the other columns
\* repeated; an empty list gives one row with NaN; a NaN cell is kept
explode_row_reversed(r, col) ==
    IF r[col].na \/ r[col].v = <<>> THEN <<[r EXCEPT ![col] = NaNText]>>
    ELSE [j \in 1..Len(r[col].v) |->
            [r EXCEPT ![col] = Cell(r[col].v[Len(r[col].v) + 1 - j])]]
explode_row_first_only(r, col) ==
    IF r[col].na \/ r[col].v = <<>> THEN <<[r EXCEPT ![col] = NaNText]>>
    ELSE <<[r EXCEPT ![col] = Cell(r[col].v[1])]>>
explode_row_blank_repeats(r, col) ==
    IF r[col].na \/ r[col].v = <<>> THEN <<[r EXCEPT ![col] = NaNText]>>
    ELSE [j \in 1..Len(r[col].v) |->
            IF j = 1 THEN [r EXCEPT ![col] = Cell(r[col].v[j])]
            ELSE [r EXCEPT ![col] = Cell(r[col].v[j]), !.Title = NaNText]]
explode_row(r, col) ==
    IF r[col].na THEN <<r>>
    ELSE IF r[col].v = <<>> THEN <<[r EXCEPT ![col] = NaNText]>>
    ELSE [j \in 1..Len(r[col].v) |-> [r EXCEPT ![col] = Cell(r[col].v[j])]]
RECURSIVE explode(_, _)
explode(frame, col) ==
    IF frame = <<>> THEN <<>>
    ELSE explode_row(frame[1], col) \o explode(Tail(frame), col)
\* .reset_index(drop=True): the labels become 0..n-1
reset_index(frame) == [i \in 1..Len(frame) |-> [frame[i] EXCEPT !.idx = i - 1]]

\* astype('category') (147): the categories are the distinct values
distinct_values(frame, col) ==
    {frame[i][col].v : i \in {j \in 1..Len(frame) : ~frame[j][col].na}}


\* ------------------------------------------------------- input tables
\* pd.read_csv (60): row i of the file, with index label i-1
Repeat(ch, n) == [j \in 1..n |-> ch]
RawRow(i, score, genre) ==
    [idx |-> i - 1,
     Release_Date |-> Cell(<<2019 + i, i, 15>>),
     Title |-> Cell(Repeat("t", i)),
     Overview |-> Cell(<<"o">>),
     Popularity |-> Cell(10 * i),
     Vote_Count |-> Cell(100 + i),
     Vote_Average |-> Cell(score),
     Original_Language |-> Cell(<<"e", "n">>),
     Genre |-> Cell(genre),
     Poster_Url |-> Cell(<<"u">>)]
RawDtypes ==
    [c \in RetainedCols \cup DroppedCols |->
        [kind |-> IF c \in {"Popularity", "Vote_Average"} THEN "float64"
                  ELSE IF c = "Vote_Count" THEN "int64" ELSE "object",
         categories |-> <<>>]]
NumericCols == {"Popularity", "Vote_Count", "Vote_Average"}
\* a defect <<i, c>> empties cell c of row i; <<i, "bad_date">> makes the
\* Release_Date of row i a text that names no calendar day
WithDefects(frame, D) ==
    [i \in 1..Len(frame) |->
        [c \in DOMAIN frame[i] |->
            IF c = "idx" THEN frame[i][c]
            ELSE IF <<i, c>> \in D
                 THEN (IF c \in NumericCols THEN NaNNum ELSE NaNText)
            ELSE IF c = "Release_Date" /\ <<i, "bad_date">> \in D
                 THEN Cell(<<2019 + i, 13, 1>>)
            ELSE frame[i][c]]]
DefectCells(n) ==
    (1..n) \X (RetainedCols \cup {"Overview", "bad_date"})
RECURSIVE SubsetsUpTo(_, _)
SubsetsUpTo(S, k) ==
    IF k = 0 THEN {{}}
    ELSE LET T == SubsetsUpTo(S, k - 1)
         IN  T \cup {t \cup {x} : t \in T, x \in S}
PipelineScores == {0, 1}
GenreSample == {<<"a">>, <<"a", ",", " ", " ", ",", " ", "a">>}

\* every text over Alphabet of length at most n
RECURSIVE Texts(_)
Texts(n) ==
    IF n = 0 THEN {<<>>}
    ELSE Texts(n - 1) \cup
         {Append(t, ch) : t \in {u \in Texts(n - 1) : Len(u) = n - 1},
                          ch \in Alphabet}
\* every list of n texts with at most `budget` characters in all
RECURSIVE TextLists(_, _)
TextLists(n, budget) ==
    IF n = 0 THEN {<<>>}
    ELSE UNION {{<<t>> \o rest : rest \in TextLists(n - 1, budget - Len(t))} :
                t \in Texts(budget)}

\* a frame as catigorize_col sees it (after lines 90-102)
CleanRow(i, va) ==
    [idx |-> i - 1,
     Release_Date |-> Cell(2019 + i),
     Title |-> Cell(Repeat("t", i)),
     Popularity |-> Cell(10 * i),
     Vote_Count |-> Cell(100 + i),
     Vote_Average |-> va,
     Genre |-> Cell(<<"a">>)]
CleanDtypes ==
    [c \in RetainedCols |->
        IF c = "Release_Date" THEN [kind |-> "int32", categories |-> <<>>]
        ELSE RawDtypes[c]]
ScoreCells == {Cell(x) : x \in 0..MaxScore} \cup {NaNNum}

\* ------------------------------------------------------------ the script
Start(frame, dt, at) ==
    /\ df = frame
    /\ dtypes = dt
    /\ pc = at
    /\ err = ""
    /\ trace = <<>>
    /\ cat_in = <<>>
    /\ entering = <<>>
    /\ exploded = <<>>

\* tables with missing and malformed cells
Init ==
    \E n \in 1..MaxRows :
      \E sc \in [1..n -> PipelineScores], g \in [1..n -> GenreSample],
         D \in SubsetsUpTo(DefectCells(n), MaxDefects) :
        Start(WithDefects([i \in 1..n |-> RawRow(i, sc[i], g[i])], D),
              RawDtypes, "to_datetime")

\* complete tables with every Genre text
InitGenres ==
    \E n \in 1..MaxRows :
      \E g \in TextLists(n, MaxGenreChars) :
        Start([i \in 1..n |-> RawRow(i, i - 1, g[i])], RawDtypes, "to_datetime")

\* columns handed to catigorize_col
InitCat ==
    \E n \in 1..MaxN :
      \E va \in [1..n -> ScoreCells] :
        Start([i \in 1..n |-> CleanRow(i, va[i])], CleanDtypes, "categorize")

\* the statement `stmt` raised e: the script stops there
Halt(stmt, e) ==
    /\ pc' = "halted"
    /\ err' = e
    /\ trace' = Append(trace, stmt)
    /\ UNCHANGED <<df, dtypes, entering, exploded>>

\* lines 90-94
ConvertReleaseDate ==
    /\ pc = "to_datetime"
    /\ IF to_datetime_fails(df) THEN Halt("to_datetime", "ParserError")
       ELSE /\ df' = [i \in 1..Len(df) |->
                        [df[i] EXCEPT !.Release_Date = dt_year(@)]]
            /\ dtypes' = [dtypes EXCEPT !.Release_Date.kind =
                            IF \E i \in 1..Len(df) : df[i].Release_Date.na
                            THEN "float64" ELSE "int32"]
            /\ pc' = "drop"
            /\ trace' = Append(trace, "to_datetime")
            /\ UNCHANGED <<err, entering, exploded>>
    /\ UNCHANGED cat_in

\* lines 101-102
DropColumns ==
    /\ pc = "drop"
    /\ df' = drop_cols(df, DroppedCols)
    /\ dtypes' = [c \in DOMAIN dtypes \ DroppedCols |-> dtypes[c]]
    /\ pc' = "categorize"
    /\ trace' = Append(trace, "drop")
    /\ UNCHANGED <<err, cat_in, entering, exploded>>

\* line 130
Categorize ==
    /\ pc = "categorize"
    /\ cat_in' = df
    /\ LET res == catigorize_col(df, dtypes, "Vote_Average", Labels)
       IN  IF res.err # "" THEN Halt("categorize", res.err)
           ELSE /\ df' = res.df
                /\ dtypes' = res.dtypes
                /\ pc' = "dropna"
                /\ trace' = Append(trace, "categorize")
                /\ UNCHANGED <<err, entering, exploded>>

\* catigorize_col called once more on the column it has categorized
Recategorize ==
    /\ pc = "dropna"
    /\ cat_in' = df
    /\ LET res == catigorize_col(df, dtypes, "Vote_Average", Labels)
       IN  /\ df' = res.df
           /\ dtypes' = res.dtypes
           /\ err' = res.err
           /\ pc' = IF res.err # "" THEN "halted" ELSE "recategorized"
           /\ trace' = Append(trace, "recategorize")
           /\ UNCHANGED <<entering, exploded>>

\* line 137
DropNa ==
    /\ pc = "dropna"
    /\ df' = dropna(df)
    /\ pc' = "explode"
    /\ trace' = Append(trace, "dropna")
    /\ UNCHANGED <<dtypes, err, cat_in, entering, exploded>>

\* lines 142-143
ExplodeGenre ==
    /\ pc = "explode"
    /\ entering' = df
    /\ exploded' = explode(split_column(df, "Genre", Sep), "Genre")
    /\ df' = reset_index(exploded')
    /\ pc' = "astype"
    /\ trace' = Append(trace, "explode")
    /\ UNCHANGED <<dtypes, err, cat_in>>

\* line 147
CastGenre ==
    /\ pc = "astype"
    /\ dtypes' = [dtypes EXCEPT !.Genre =
                    [kind |-> "category",
                     categories |-> distinct_values(df, "Genre")]]
    /\ pc' = "report"
    /\ trace' = Append(trace, "astype")
    /\ UNCHANGED <<df, err, cat_in, entering, exploded>>

Next ==
    \/ ConvertReleaseDate
    \/ DropColumns
    \/ Categorize
    \/ DropNa
    \/ ExplodeGenre
    \/ CastGenre

NextCat ==
    \/ Categorize
    \/ Recategorize

Spec == Init /\ [][Next]_vars
SpecGenres == InitGenres /\ [][Next]_vars
SpecCat == InitCat /\ [][NextCat]_vars


\* ================================================================ claims
\* the call of line 130 has just been made / has just returned normally
CatCalled == trace # <<>> /\ trace[Len(trace)] = "categorize"
CatReturned == CatCalled /\ pc = "dropna"
\* the scores handed to that call, and the distinct boundary values
InScores == SortedValues(cat_in, "Vote_Average")
InEdges ==
    LET s == InScores IN SortedSet({Quartile4(s, k) : k \in 0..4})
\* rows whose input score was not missing
Scored == {i \in 1..Len(cat_in) : ~cat_in[i].Vote_Average.na}
\* the position in Labels of the label row i shows, 0 when it shows none
Rank(i) ==
    IF df[i].Vote_Average.na THEN 0
    ELSE CHOOSE k \in 1..Len(Labels) :
            Labels[k] = LabelOf(df[i].Vote_Average, dtypes.Vote_Average)

\* C2: after catigorize_col every non-missing input score has one of the
\* labels, also when quartile boundaries coincide.
C2_Total ==
    CatReturned => \A i \in Scored : Rank(i) \in 1..Len(Labels)

\* C3: of two labelled rows, the one with the higher (or equal) score has
\* the same or a later label of the ordered label list.
C3_Monotonic ==
    CatReturned =>
        LET rank == [i \in Scored |-> Rank(i)]
        IN  \A i, j \in Scored :
                (rank[i] # 0 /\ rank[j] # 0
                 /\ cat_in[i].Vote_Average.v <= cat_in[j].Vote_Average.v)
                => rank[i] <= rank[j]
C3_Witness ==
    /\ CatReturned
    /\ \E i, j \in Scored :
          /\ cat_in[i].Vote_Average.v < cat_in[j].Vote_Average.v
          /\ Rank(i) # 0
          /\ Rank(i) < Rank(j)
    /\ \E i, j \in Scored :
          /\ cat_in[i].Vote_Average.v < cat_in[j].Vote_Average.v
          /\ Rank(i) # 0
          /\ Rank(i) = Rank(j)

\* rows whose score lies exactly on the boundary E[k]
OnEdge(E, k) == {i \in Scored : 4 * cat_in[i].Vote_Average.v = E[k]}
\* rows holding the column's minimum m
AtMinimum(m) == {i \in Scored : cat_in[i].Vote_Average.v = m}

\* C9 as claimed: where bins exist, the minimum is in the lowest bin and a
\* score on an interior boundary is in the UPPER adjacent bin (bins closed
\* on the left).
C9_BoundaryInUpperBin ==
    LET E == InEdges
    IN  (CatReturned /\ Len(E) >= 2) =>
            /\ \A i \in AtMinimum(InScores[1]) : Rank(i) = 1
            /\ \A k \in 2..(Len(E) - 1) : \A i \in OnEdge(E, k) : Rank(i) = k
\* C9 amended: where bins exist, the minimum is in the lowest bin and a
\* score on an interior boundary is in the LOWER adjacent bin (bins closed
\* on the right, the first one on the left as well).
C9_BoundaryInLowerBin ==
    LET E == InEdges
    IN  (CatReturned /\ Len(E) >= 2) =>
            /\ \A i \in AtMinimum(InScores[1]) : Rank(i) = 1
            /\ \A k \in 2..(Len(E) - 1) :
                  \A i \in OnEdge(E, k) : Rank(i) = k - 1
C9_Witness ==
    LET E == InEdges
    IN  /\ CatReturned
        /\ Len(E) = 5
        /\ \E k \in 3..4 : \E i \in OnEdge(E, k) : Rank(i) = k - 1
        /\ \E i \in AtMinimum(InScores[1]) : Rank(i) = 1

\* C10: with d distinct boundary values, 2 <= d <= 5, the call raises
\* nothing, the categories are the first d-1 labels, and every score gets
\* one of them.
C10_Degenerate ==
    CatCalled =>
        LET d == IF InScores = <<>> THEN 0 ELSE Len(InEdges)
        IN  d >= 2 =>
              /\ err = ""
              /\ pc = "dropna"
              /\ dtypes.Vote_Average.kind = "category"
              /\ dtypes.Vote_Average.categories = SubSeq(Labels, 1, d - 1)
              /\ \A i \in Scored : Rank(i) \in 1..(d - 1)
C10_Witness ==
    /\ CatReturned
    /\ Len(InEdges) = 3
    /\ dtypes.Vote_Average.categories = <<"not_popular", "below_avg">>
    /\ \E i \in Scored : Rank(i) = 2

\* C8: a call of catigorize_col on a categorized column ends with an error
\* and changes neither the labels nor the categories.
C8_RerunRejected ==
    [][(pc = "dropna" /\ dtypes.Vote_Average.kind = "category")
         => (err' # "" /\ df' = df /\ dtypes' = dtypes)]_vars
C8_Witness ==
    /\ Len(trace) = 2
    /\ trace[2] = "recategorize"
    /\ err = "KeyError"
    /\ \E i \in 1..Len(df) : ~df[i].Vote_Average.na /\ df[i].Vote_Average.v = 1


\* the explode step of lines 142-143 has run
Exploded == "explode" \in {trace[k] : k \in DOMAIN trace}
\* the tags of a Genre text: one more than its comma-space occurrences
TagCount(t) ==
    1 + Cardinality({k \in 1..(Len(t) - 1) : t[k] = "," /\ t[k + 1] = " "})
RECURSIVE TagTotal(_)
TagTotal(frame) ==
    IF frame = <<>> THEN 0
    ELSE TagCount(frame[1].Genre.v) + TagTotal(Tail(frame))
\* the position in `entering` of the record row p was expanded from: the
\* one whose index label the exploded row p carries
Source(p) == CHOOSE i \in 1..Len(entering) : entering[i].idx = exploded[p].idx
SourceTags(p) == str_split(entering[Source(p)].Genre.v, Sep)
\* the rows expanded from the same record as row p
Group(p) == {q \in 1..Len(df) : Source(q) = Source(p)}

\* C1: the rows after the explode step number the sum of the tag counts
\* of the records that entered it.
C1_RowCount ==
    Exploded => Len(df) = TagTotal(entering)
C1_Witness ==
    /\ Exploded
    /\ Len(entering) = 2
    /\ TagCount(entering[1].Genre.v) = 3
    /\ TagCount(entering[2].Genre.v) = 1
    /\ Len(df) = 4

\* C4: every exploded row has the non-Genre attributes of its source record
\* and one of the source's tags as Genre.
C4_Frame ==
    Exploded =>
        /\ Len(df) = Len(exploded)
        /\ \A p \in 1..Len(df) :
              /\ \A c \in Columns(df[p]) \ {"Genre"} :
                    df[p][c] = entering[Source(p)][c]
              /\ ~df[p].Genre.na
              /\ \E j \in 1..Len(SourceTags(p)) : df[p].Genre.v = SourceTags(p)[j]
C4_Witness ==
    /\ Exploded
    /\ Len(entering) = 2
    /\ \E p, q \in 1..Len(df) :
          /\ p # q
          /\ Source(p) = 2
          /\ Source(q) = 2
          /\ df[p].Genre.v # df[q].Genre.v
          /\ df[p].Title = entering[2].Title
          /\ df[q].Title # entering[1].Title

\* C5: the rows of one source record are contiguous and carry its tags in
\* the order of its Genre text; the groups keep the order of the records.
C5_Order ==
    Exploded =>
        /\ \A p, q \in 1..Len(df) : p < q => Source(p) <= Source(q)
        /\ \A p \in 1..Len(df) :
              LET first == CHOOSE q \in Group(p) : \A o \in Group(p) : q <= o
              IN  /\ p - first + 1 <= Len(SourceTags(p))
                  /\ df[p].Genre.v = SourceTags(p)[p - first + 1]
C5_Witness ==
    /\ Exploded
    /\ Len(entering) = 2
    /\ Len(df) = 4
    /\ Source(1) = 1 /\ Source(2) = 1 /\ Source(3) = 2 /\ Source(4) = 2
    /\ entering[1].Genre.v = <<"a", ",", " ">>
    /\ entering[2].Genre.v = <<",", " ">>
    /\ df[1].Genre.v = <<"a">> /\ df[2].Genre.v = <<>>
    /\ df[3].Genre.v = <<>> /\ df[4].Genre.v = <<>>

\* C6: no row of the final dataset misses a value in a retained column.
C6_NoMissing ==
    pc = "report" =>
        \A p \in 1..Len(df) : \A c \in RetainedCols : ~df[p][c].na
\* a final dataset that is not empty, from a table that lost its first row
C6_Witness ==
    /\ pc = "report"
    /\ df # <<>>
    /\ entering[1].idx # 0
    /\ Len(df) > Len(entering)

\* C7: whenever the drop of missing values has run, the categorization and
\* the explosion have both run before it.
Before(a, b) ==
    \E i, j \in DOMAIN trace : i < j /\ trace[i] = a /\ trace[j] = b
C7_DropAfterExplode ==
    "dropna" \in {trace[k] : k \in DOMAIN trace} =>
        Before("categorize", "dropna") /\ Before("explode", "dropna")


====
